---- MODULE Spec2Model ----
(***************************************************************************)
(* Model of csv_to_json (src/数据处理.py): the encoding-resilient CSV      *)
(* reader, the value normalisers and the assembly of the four-collection   *)
(* push document.                                                          *)
(*                                                                         *)
(* Text is a sequence of Unicode code points, a file is a sequence of      *)
(* lines, a line a sequence of cells, a cell a sequence of bytes.  Cell    *)
(* and line separators are ASCII, so a multi-byte sequence never spans a   *)
(* cell boundary: a sequence cut short at the end of a cell is a decode    *)
(* error.  None is <<-1>>, a failed decode is <<-2>>.                      *)
(*                                                                         *)
(* The reader decodes line by line: the io layer decodes in chunks and a   *)
(* chunk can end after any line, so rows read before an undecodable line   *)
(* may already be in equipment_list when UnicodeDecodeError is raised.     *)
(* Lines are not empty (DictReader skips empty lines) and cells hold no    *)
(* separators or quotes.  Numbers are fixed-point, in millionths.          *)
(* Fields of the records that are constants or copies of modelled fields   *)
(* are left out.                                                           *)
(***************************************************************************)
EXTENDS Integers, Sequences, FiniteSets, TLC

(* Bound of the model: the number of data lines of the input file. *)
MaxRows == 2

None == <<-1>>
DecodeErr == <<-2>>

(* ---------------------------------------------------------------------- *)
(* Column names and literals of the program, as code points.              *)
(* ---------------------------------------------------------------------- *)
COL_KEY == <<35774, 22791, 32534, 21495>>
COL_LON == <<32463, 24230>>
COL_LAT == <<32428, 24230>>
COL_PHONE == <<25163, 26426, 21495>>
COL_COMPANY == <<26045, 24037, 21333, 20301>>
COL_TIME == <<25293, 25668, 26102, 38388>>

MASK == <<42, 42, 42, 42>>
ZEROFILL == <<48, 48, 48, 48>>

(* str.isspace over the code points of the Basic Multilingual Plane *)
IsSpace(c) ==
    c \in (9..13) \cup (28..32) \cup {133, 160, 5760} \cup (8192..8202)
          \cup {8232, 8233, 8239, 8287, 12288}

IsDigit(c) == c \in 48..57

RECURSIVE LStrip(_)
LStrip(s) == IF s # <<>> /\ IsSpace(Head(s)) THEN LStrip(Tail(s)) ELSE s

RECURSIVE RStrip(_)
RStrip(s) ==
    IF s # <<>> /\ IsSpace(s[Len(s)]) THEN RStrip(SubSeq(s, 1, Len(s) - 1)) ELSE s

(* str.strip() *)
Strip(s) == RStrip(LStrip(s))

(* str.find: the first index at which pat occurs in s, 0 when it does not *)
Find(s, pat) ==
    LET hits == {i \in 1..(Len(s) - Len(pat) + 1) : SubSeq(s, i, i + Len(pat) - 1) = pat}
    IN IF hits = {} THEN 0 ELSE CHOOSE i \in hits : \A j \in hits : i <= j

(* str.replace(ch, '') for a one-character ch *)
RECURSIVE Remove(_, _)
Remove(s, ch) ==
    IF s = <<>> THEN <<>>
    ELSE IF Head(s) = ch THEN Remove(Tail(s), ch)
    ELSE <<Head(s)>> \o Remove(Tail(s), ch)

(* str.split(sep): the parts of s between the occurrences of sep; p is the
   first occurrence of sep in s *)
RECURSIVE SplitAt(_, _, _)
SplitAt(s, sep, p) ==
    IF p = 0 THEN <<s>>
    ELSE <<SubSeq(s, 1, p - 1)>>
         \o SplitAt(SubSeq(s, p + Len(sep), Len(s)), sep,
                    Find(SubSeq(s, p + Len(sep), Len(s)), sep))

Split(s, sep) == SplitAt(s, sep, Find(s, sep))

(* the value of a non-empty run of decimal digits *)
RECURSIVE DigitsVal(_)
DigitsVal(s) ==
    IF s = <<>> THEN 0 ELSE 10 * DigitsVal(SubSeq(s, 1, Len(s) - 1)) + (s[Len(s)] - 48)

AllDigits(s) == s # <<>> /\ \A i \in 1..Len(s) : IsDigit(s[i])

(* ---------------------------------------------------------------------- *)
(* Codecs behind open(csv_file, 'r', encoding=...).                       *)
(* ---------------------------------------------------------------------- *)
Charsets == {"utf-8", "gbk", "gb2312", "utf-8-sig", "latin1"}

BOM == <<239, 187, 191>>

(* prepend a decoded character unless the rest failed to decode *)
Cons(c, rest) == IF rest = DecodeErr THEN DecodeErr ELSE <<c>> \o rest

IsCont(b) == b \in 128..191

RECURSIVE Utf8From(_, _)
Utf8From(b, i) ==
    IF i > Len(b) THEN <<>>
    ELSE LET c == b[i] IN
      IF c < 128 THEN Cons(c, Utf8From(b, i + 1))
      ELSE IF c \in 194..223 /\ i + 1 <= Len(b) /\ IsCont(b[i + 1])
        THEN Cons((c - 192) * 64 + (b[i + 1] - 128), Utf8From(b, i + 2))
      ELSE IF /\ c \in 224..239 /\ i + 2 <= Len(b)
              /\ IsCont(b[i + 1]) /\ IsCont(b[i + 2])
              /\ (c = 224 => b[i + 1] >= 160)
              /\ (c = 237 => b[i + 1] <= 159)
        THEN Cons((c - 224) * 4096 + (b[i + 1] - 128) * 64 + (b[i + 2] - 128),
                  Utf8From(b, i + 3))
      ELSE IF /\ c \in 240..244 /\ i + 3 <= Len(b)
              /\ IsCont(b[i + 1]) /\ IsCont(b[i + 2]) /\ IsCont(b[i + 3])
              /\ (c = 240 => b[i + 1] >= 144)
              /\ (c = 244 => b[i + 1] <= 143)
        THEN Cons((c - 240) * 262144 + (b[i + 1] - 128) * 4096
                    + (b[i + 2] - 128) * 64 + (b[i + 3] - 128),
                  Utf8From(b, i + 4))
      ELSE DecodeErr

(* the double-byte table of GBK / GB2312, for the characters of the model:
   <<lead byte, trail byte, code point>> *)
DBCSTable ==
    { <<206, 187, 20301>>, <<181, 165, 21333>>, <<186, 197, 21495>>,
      <<177, 184, 22791>>, <<185, 164, 24037>>, <<182, 200, 24230>>,
      <<202, 214, 25163>>, <<197, 196, 25293>>, <<201, 227, 25668>>,
      <<202, 169, 26045>>, <<202, 177, 26102>>, <<187, 250, 26426>>,
      <<206, 179, 32428>>, <<190, 173, 32463>>, <<177, 224, 32534>>,
      <<201, 232, 35774>>, <<188, 228, 38388>>, <<233, 70, 38229>> }

(* a double-byte character outside the table stands for itself, above the
   Unicode range, so that it differs from every character of the model *)
DBCSChar(lead, trail) ==
    IF \E e \in DBCSTable : e[1] = lead /\ e[2] = trail
    THEN (CHOOSE e \in DBCSTable : e[1] = lead /\ e[2] = trail)[3]
    ELSE 2000000 + lead * 256 + trail

(* the assigned blocks of GBK: lead 81..FE, trail 40..FE without 7F, less
   the user-defined areas A140..A7A0, AAA1..AFFE and F8A1..FEFE *)
GbkPair(lead, trail) ==
    /\ lead \in 129..254
    /\ trail \in 64..254
    /\ trail # 127
    /\ ~(lead \in 161..167 /\ trail <= 160)
    /\ ~(lead \in 170..175 /\ trail >= 161)
    /\ ~(lead \in 248..254 /\ trail >= 161)

(* the assigned blocks of GB2312: rows A1..A9 and B0..F7, trail A1..FE *)
Gb2312Pair(lead, trail) ==
    /\ lead \in (161..169) \cup (176..247)
    /\ trail \in 161..254

RECURSIVE DbcsFrom(_, _, _)
DbcsFrom(b, i, gbk) ==
    IF i > Len(b) THEN <<>>
    ELSE LET c == b[i] IN
      IF c < 128 THEN Cons(c, DbcsFrom(b, i + 1, gbk))
      ELSE IF /\ i + 1 <= Len(b)
              /\ IF gbk THEN GbkPair(c, b[i + 1]) ELSE Gb2312Pair(c, b[i + 1])
        THEN Cons(DBCSChar(c, b[i + 1]), DbcsFrom(b, i + 2, gbk))
      ELSE DecodeErr

(* bytes.decode(enc) of one cell; atStart: the cell opens the file *)
Decode(enc, b, atStart) ==
    CASE enc = "utf-8" -> Utf8From(b, 1)
      [] enc = "utf-8-sig" ->
            IF atStart /\ Len(b) >= 3 /\ SubSeq(b, 1, 3) = BOM
            THEN Utf8From(b, 4) ELSE Utf8From(b, 1)
      [] enc = "gbk" -> DbcsFrom(b, 1, TRUE)
      [] enc = "gb2312" -> DbcsFrom(b, 1, FALSE)
      [] enc = "latin1" -> b

RECURSIVE Utf8Enc(_)
Utf8Enc(s) ==
    IF s = <<>> THEN <<>>
    ELSE LET c == Head(s) IN
      (IF c < 128 THEN <<c>>
       ELSE IF c < 2048 THEN <<192 + (c \div 64), 128 + (c % 64)>>
       ELSE <<224 + (c \div 4096), 128 + ((c \div 64) % 64), 128 + (c % 64)>>)
      \o Utf8Enc(Tail(s))

(* a character the double-byte codec enc can encode *)
DbcsEncodable(enc, c) ==
    \/ c < 128
    \/ \E e \in DBCSTable :
         e[3] = c /\ IF enc = "gbk" THEN GbkPair(e[1], e[2]) ELSE Gb2312Pair(e[1], e[2])

RECURSIVE DbcsEnc(_)
DbcsEnc(s) ==
    IF s = <<>> THEN <<>>
    ELSE LET c == Head(s) IN
      (IF c < 128 THEN <<c>>
       ELSE LET e == CHOOSE x \in DBCSTable : x[3] = c IN <<e[1], e[2]>>)
      \o DbcsEnc(Tail(s))

(* text a file written in charset enc can hold *)
Encodable(enc, s) ==
    CASE enc \in {"utf-8", "utf-8-sig"} -> TRUE
      [] enc \in {"gbk", "gb2312"} -> \A i \in 1..Len(s) : DbcsEncodable(enc, s[i])
      [] enc = "latin1" -> \A i \in 1..Len(s) : s[i] < 256

(* str.encode(enc) of one cell; atStart: the cell opens the file *)
Encode(enc, s, atStart) ==
    CASE enc = "utf-8" -> Utf8Enc(s)
      [] enc = "utf-8-sig" -> IF atStart THEN BOM \o Utf8Enc(s) ELSE Utf8Enc(s)
      [] enc \in {"gbk", "gb2312"} -> DbcsEnc(s)
      [] enc = "latin1" -> s

EncodeLine(enc, cells, first) ==
    [i \in 1..Len(cells) |-> Encode(enc, cells[i], first /\ i = 1)]

(* the decoded cells of a line, or DecodeErr when one of them failed *)
AllOrErr(d) == IF \E i \in 1..Len(d) : d[i] = DecodeErr THEN DecodeErr ELSE d

(* one line of the file decoded under enc: its cells, or DecodeErr *)
DecodeLine(enc, cells, first) ==
    AllOrErr([i \in 1..Len(cells) |-> Decode(enc, cells[i], first /\ i = 1)])

(* ---------------------------------------------------------------------- *)
(* Value normalisers.                                                     *)
(* ---------------------------------------------------------------------- *)

(* str(index) *)
RECURSIVE IntToText(_)
IntToText(n) == IF n < 10 THEN <<48 + n>> ELSE IntToText(n \div 10) \o <<48 + (n % 10)>>

(* str.zfill(3) *)
ZFill3(s) == IF Len(s) >= 3 THEN s ELSE [i \in 1..(3 - Len(s)) |-> 48] \o s

Pow10(k) == CASE k = 0 -> 1 [] k = 1 -> 10 [] k = 2 -> 100 [] k = 3 -> 1000
              [] k = 4 -> 10000 [] k = 5 -> 100000 [] k = 6 -> 1000000

(* the value, in millionths, of integer digits ip and fraction digits fp *)
FloatVal(ip, fp, neg) ==
    IF /\ (ip = <<>> \/ AllDigits(ip))
       /\ (fp = <<>> \/ AllDigits(fp))
       /\ (ip # <<>> \/ fp # <<>>)
       /\ Len(fp) <= 6
    THEN [ok |-> TRUE,
          val |-> (IF neg THEN -1 ELSE 1)
                    * (DigitsVal(ip) * 1000000 + DigitsVal(fp) * Pow10(6 - Len(fp)))]
    ELSE [ok |-> FALSE, val |-> 0]

(* p is the place of the decimal point in body, 0 when it has none *)
FloatBody(body, p, neg) ==
    IF p = 0 THEN FloatVal(body, <<>>, neg)
    ELSE FloatVal(SubSeq(body, 1, p - 1), SubSeq(body, p + 1, Len(body)), neg)

FloatSigned(t) ==
    IF t # <<>> /\ t[1] \in {43, 45}
    THEN FloatBody(Tail(t), Find(Tail(t), <<46>>), t[1] = 45)
    ELSE FloatBody(t, Find(t, <<46>>), FALSE)

(* float(s) on a decimal literal [sign] digits [. digits], at most six
   fractional digits; the value in millionths.  ok = FALSE: ValueError *)
FloatOf(s) == FloatSigned(Strip(s))

(* try: return float(...) except: return default *)
OrDefault(r, default) == IF r.ok THEN r.val ELSE default

safe_float(value, default) ==
    IF value = None \/ value = <<>> \/ Strip(value) = <<>> THEN default
    ELSE OrDefault(FloatOf(value), default)

safe_str(value, default) ==
    IF value = None \/ value = <<>> THEN default ELSE Strip(value)

IntDigits(body, neg) ==
    IF AllDigits(body)
    THEN [ok |-> TRUE, val |-> (IF neg THEN -1 ELSE 1) * DigitsVal(body)]
    ELSE [ok |-> FALSE, val |-> 0]

IntSigned(t) ==
    IF t # <<>> /\ t[1] \in {43, 45} THEN IntDigits(Tail(t), t[1] = 45)
    ELSE IntDigits(t, FALSE)

(* int(s): optional sign and decimal digits between optional white space.
   ok = FALSE: ValueError *)
IntOf(s) == IntSigned(Strip(s))

(* line 25: int(parts[0] + '0000' + parts[1]) *)
Unmask(parts) == IntOf(parts[1] \o ZEROFILL \o parts[2])

(* parse_phone: [ok |-> FALSE] is the ValueError int() raises *)
parse_phone(phone_str) ==
    IF phone_str = None \/ phone_str = <<>> \/ Strip(phone_str) = <<>>
    THEN [ok |-> TRUE, val |-> 0]
    ELSE IF Find(phone_str, MASK) # 0 THEN Unmask(Split(phone_str, MASK))
    ELSE IntOf(Remove(Remove(phone_str, 45), 32))

IsLeap(y) == (y % 4 = 0 /\ y % 100 # 0) \/ y % 400 = 0

DaysIn(y, m) ==
    IF m = 2 THEN (IF IsLeap(y) THEN 29 ELSE 28)
    ELSE IF m \in {4, 6, 9, 11} THEN 30 ELSE 31

(* a field of one or two digits *)
Short(s) == AllDigits(s) /\ Len(s) <= 2

(* the fields of a date and a time of day, <<>> when out of range *)
DateTimeOf(y, m, d, hh, mm) ==
    IF y >= 1 /\ m \in 1..12 /\ d >= 1 /\ d <= DaysIn(y, m) /\ hh <= 23 /\ mm <= 59
    THEN <<y, m, d, hh, mm, 0>> ELSE <<>>

(* date: the parts around the date separator; time: the parts around ':' *)
StrpFields(date, time) ==
    IF /\ Len(date) = 3 /\ Len(time) = 2
       /\ AllDigits(date[1]) /\ Len(date[1]) = 4
       /\ Short(date[2]) /\ Short(date[3])
       /\ Short(time[1]) /\ Short(time[2])
    THEN DateTimeOf(DigitsVal(date[1]), DigitsVal(date[2]), DigitsVal(date[3]),
                    DigitsVal(time[1]), DigitsVal(time[2]))
    ELSE <<>>

(* cut is the place of the white space between date and time, 0 if none *)
StrpAt(s, sep, cut) ==
    IF cut = 0 THEN <<>>
    ELSE StrpFields(Split(SubSeq(s, 1, cut - 1), <<sep>>),
                    Split(LStrip(SubSeq(s, cut, Len(s))), <<58>>))

(* the first white space of s, 0 if none *)
FirstSpace(s) ==
    IF \E i \in 1..Len(s) : IsSpace(s[i])
    THEN CHOOSE i \in 1..Len(s) : IsSpace(s[i]) /\ \A j \in 1..(i - 1) : ~IsSpace(s[j])
    ELSE 0

(* datetime.strptime(s, "%Y<sep>%m<sep>%d %H:%M"): the fields, or <<>> for
   the ValueError of a string that does not match *)
StrpTime(s, sep) == StrpAt(s, sep, FirstSpace(s))

(* the first of two parses that matched, the clock when neither did *)
FirstParsed(a, b, clock) == IF a # <<>> THEN a ELSE IF b # <<>> THEN b ELSE clock

(* parse_datetime: the six fields of the "%Y-%m-%d %H:%M:%S" string it
   returns; clock is datetime.now() *)
parse_datetime(date_str, clock) ==
    IF date_str = None \/ date_str = <<>> \/ Strip(date_str) = <<>> THEN clock
    ELSE FirstParsed(StrpTime(date_str, 47), StrpTime(date_str, 45), clock)

(* generate_id: prefix, the date of the clock, the index padded to three *)
generate_id(prefix, index, clock) ==
    <<prefix, SubSeq(clock, 1, 3), ZFill3(IntToText(index))>>

(* ---------------------------------------------------------------------- *)
(* Inputs: the file on disk, the caller's configuration, the clock.       *)
(* ---------------------------------------------------------------------- *)
Columns == {"key", "lon", "lat", "phone", "company", "time"}

ColName(col) ==
    CASE col = "key" -> COL_KEY [] col = "lon" -> COL_LON [] col = "lat" -> COL_LAT
      [] col = "phone" -> COL_PHONE [] col = "company" -> COL_COMPANY
      [] col = "time" -> COL_TIME

(* a line of the source text: its cells by column, and how many cells the
   line has (a short line ends early) *)
TextRow(n, key, lon, lat, phone, company, time) ==
    [n |-> n, key |-> key, lon |-> lon, lat |-> lat, phone |-> phone,
     company |-> company, time |-> time]

T_2025_9_25 == <<50, 48, 50, 53, 47, 57, 47, 50, 53, 32, 49, 48, 58, 52, 57>>
T_2025_9_25_dash == <<50, 48, 50, 53, 45, 57, 45, 50, 53, 32, 49, 48, 58, 52, 57>>
T_2025_2_30 == <<50, 48, 50, 53, 47, 50, 47, 51, 48, 32, 49, 48, 58, 52, 57>>

(* "E1",10,20,"1****5","ACME","2025/9/25 10:49" *)
RowPlain == TextRow(6, <<69, 49>>, <<49, 48>>, <<50, 48>>,
                    <<49, 42, 42, 42, 42, 53>>, <<65, 67, 77, 69>>, T_2025_9_25)
(* " E2 ",30,40,"13-12 56","","2025-9-25 10:49" *)
RowPadded == TextRow(6, <<32, 69, 50, 32>>, <<51, 48>>, <<52, 48>>,
                     <<49, 51, 45, 49, 50, 32, 53, 54>>, <<>>, T_2025_9_25_dash)
(* "E3",0,0,"","施工","bad" *)
RowZero == TextRow(6, <<69, 51>>, <<48>>, <<48>>, <<>>, <<26045, 24037>>,
                   <<98, 97, 100>>)
(* "",10,20,"12a","ACME","2025/9/25 10:49": no equipment identifier *)
RowNoKey == TextRow(6, <<>>, <<49, 48>>, <<50, 48>>, <<49, 50, 97>>,
                    <<65, 67, 77, 69>>, T_2025_9_25)
(* "  ",30,40,"1****5","ACME","": a white-space equipment identifier *)
RowBlankKey == TextRow(6, <<32, 32>>, <<51, 48>>, <<52, 48>>,
                       <<49, 42, 42, 42, 42, 53>>, <<65, 67, 77, 69>>, <<>>)
(* "E6","x",20,"12a","ACME","2025/9/25 10:49": a phone int() rejects *)
RowBadPhone == TextRow(6, <<69, 54>>, <<120>>, <<50, 48>>, <<49, 50, 97>>,
                       <<65, 67, 77, 69>>, T_2025_9_25)
(* "E7",10,"": a line of three cells *)
RowShort == TextRow(3, <<69, 55>>, <<49, 48>>, <<>>, <<>>, <<>>, <<>>)
(* "E8","-10.5"," 20 ","13-12 56","镕","2025/2/30 10:49" *)
RowGbkOnly == TextRow(6, <<69, 56>>, <<45, 49, 48, 46, 53>>, <<32, 50, 48, 32>>,
                      <<49, 51, 45, 49, 50, 32, 53, 54>>, <<38229>>, T_2025_2_30)

RowSet == {RowPlain, RowPadded, RowZero, RowNoKey, RowBlankKey, RowBadPhone,
           RowShort, RowGbkOnly}

RowSetEnc == {RowPlain, RowNoKey, RowGbkOnly}

HeaderKeyFirst == <<"key", "lon", "lat", "phone", "company", "time">>
HeaderLonFirst == <<"lon", "key", "lat", "phone", "company", "time">>

SeqsUpTo(S, n) == UNION {[1..k -> S] : k \in 0..n}

(* the cells of a text line, in the order of the header *)
TextLine(header, r) == [i \in 1..r.n |-> r[header[i]]]

HeaderLine(header) == [i \in 1..Len(header) |-> ColName(header[i])]

SourceEncodable(src) ==
    /\ \A i \in 1..Len(src.header) : Encodable(src.charset, ColName(src.header[i]))
    /\ \A k \in 1..Len(src.rows) : \A i \in 1..src.rows[k].n :
          Encodable(src.charset, src.rows[k][src.header[i]])

(* the bytes on disk of a source written in its charset *)
FileOf(src, exists) ==
    [exists |-> exists,
     header |-> EncodeLine(src.charset, HeaderLine(src.header), TRUE),
     rows |-> [k \in 1..Len(src.rows) |->
                 EncodeLine(src.charset, TextLine(src.header, src.rows[k]), FALSE)]]

ConfigFields == {"sys_flag", "object_type", "region_code", "project_id",
                 "equip_type", "product_code", "object_name", "subject_type",
                 "manage_company"}

(* the values a caller supplies: "water", "R2", "CO", ... *)
CallerValues ==
    [sys_flag |-> <<119, 97, 116, 101, 114>>, object_type |-> <<79, 50>>,
     region_code |-> <<82, 50>>, project_id |-> <<80, 50>>,
     equip_type |-> <<69, 50>>, product_code |-> <<67, 50>>,
     object_name |-> <<78, 50>>, subject_type |-> <<83, 50>>,
     manage_company |-> <<67, 79>>]

(* config argument: given = FALSE is None; keys are the fields supplied *)
Configs ==
    { [given |-> FALSE, keys |-> {}, vals |-> CallerValues],
      [given |-> TRUE, keys |-> {}, vals |-> CallerValues],
      [given |-> TRUE, keys |-> {"region_code"}, vals |-> CallerValues],
      [given |-> TRUE, keys |-> {"manage_company"}, vals |-> CallerValues],
      [given |-> TRUE, keys |-> {"sys_flag", "region_code", "manage_company"},
       vals |-> CallerValues],
      [given |-> TRUE, keys |-> ConfigFields, vals |-> CallerValues] }

ConfigsEnc == {c \in Configs : c.keys = {"manage_company"}}

Clocks == {<<2026, 11, 2, 8, 30, 15>>, <<2025, 9, 25, 23, 59, 59>>}

SourceCharsets == {"utf-8", "utf-8-sig", "gbk", "gb2312"}

(* ---------------------------------------------------------------------- *)
(* csv_to_json                                                            *)
(* ---------------------------------------------------------------------- *)
VARIABLES source, csv_file, detected, config, now,
          default_config, file_encoding, ci, fieldnames, line, equipment_list,
          object_data, point_list, equipment_vo_list, relation_list, idx,
          result, output_file, printed, raised, pc

vars == <<source, csv_file, detected, config, now,
          default_config, file_encoding, ci, fieldnames, line, equipment_list,
          object_data, point_list, equipment_vo_list, relation_list, idx,
          result, output_file, printed, raised, pc>>

inputs == <<source, csv_file, detected, config, now>>

(* default_config of lines 70-79 *)
BuiltinDefaults ==
    [sys_flag |-> <<103, 97, 115>>,
     object_type |-> <<79, 66, 74, 95, 71, 88>>,
     region_code |-> <<49, 49, 48, 48, 48, 48>>,
     project_id |-> <<115, 115, 120, 109, 95, 104, 114, 114, 113, 101, 113>>,
     equip_type |-> <<106, 99, 115, 98, 49, 55, 52>>,
     product_code |-> <<48, 49, 54, 55>>,
     object_name |-> <<29123, 27668, 31649, 32447>>,
     subject_type |-> <<103, 97, 115, 95, 112, 105, 112, 101, 108, 105, 110, 101>>]

(* default_config.update(config) *)
DictUpdate(d, c) ==
    [f \in (DOMAIN d) \cup c.keys |-> IF f \in c.keys THEN c.vals[f] ELSE d[f]]

(* the candidate list with latin1, which decodes any bytes, moved ahead of
   the double-byte charsets *)
encodings_to_try_latin1_early(enc) ==
    <<enc, "utf-8", "latin1", "gbk", "gb2312", "utf-8-sig">>

encodings_to_try(enc) == <<enc, "utf-8", "gbk", "gb2312", "utf-8-sig", "latin1">>

(* row.get(name) on the dict DictReader builds from fieldnames and a line:
   a later duplicate name wins, a name past the end of the line is None *)
Get(row, name) ==
    LET hits == {i \in 1..Len(row.names) : row.names[i] = name}
    IN IF hits = {} THEN None
       ELSE LET i == CHOOSE k \in hits : \A j \in hits : j <= k
            IN IF i <= Len(row.cells) THEN row.cells[i] ELSE None

(* the filter of line 102 without its strip() test *)
HasKey_NoStrip(row) ==
    LET v == Get(row, COL_KEY) IN v # None /\ v # <<>>

(* line 102: the row has an equipment identifier *)
HasKey(row) ==
    LET v == Get(row, COL_KEY) IN v # None /\ v # <<>> /\ Strip(v) # <<>>

Init ==
    /\ \/ /\ source \in {src \in [charset : {"utf-8"}, header : {HeaderKeyFirst},
                                  rows : SeqsUpTo(RowSet, MaxRows)] : SourceEncodable(src)}
          /\ csv_file = FileOf(source, TRUE)
          /\ detected \in {"utf-8", "gbk"}
          /\ config \in Configs
       \/ /\ source \in {src \in [charset : SourceCharsets,
                                  header : {HeaderKeyFirst, HeaderLonFirst},
                                  rows : SeqsUpTo(RowSetEnc, MaxRows)] : SourceEncodable(src)}
          /\ csv_file = FileOf(source, TRUE)
          /\ detected \in Charsets
          /\ config \in ConfigsEnc
       \/ /\ source \in [charset : {"utf-8"}, header : {HeaderKeyFirst},
                         rows : SeqsUpTo({RowPlain}, 1)]
          /\ csv_file = FileOf(source, FALSE)
          /\ detected \in {"utf-8"}
          /\ config \in ConfigsEnc
    /\ now \in Clocks
    /\ default_config = BuiltinDefaults
    /\ file_encoding = "unset"
    /\ ci = 1
    /\ fieldnames = <<>>
    /\ line = 0
    /\ equipment_list = <<>>
    /\ object_data = <<>>
    /\ point_list = <<>>
    /\ equipment_vo_list = <<>>
    /\ relation_list = <<>>
    /\ idx = 1
    /\ result = <<>>
    /\ output_file = <<>>
    /\ printed = <<>>
    /\ raised = "none"
    /\ pc = "start"

(* lines 81-82: if config: default_config.update(config) *)
MergeConfig ==
    /\ pc = "start"
    /\ default_config' = IF config.given /\ config.keys # {}
                         THEN DictUpdate(default_config, config)
                         ELSE default_config
    /\ pc' = "detect"
    /\ UNCHANGED <<inputs, file_encoding, ci, fieldnames, line, equipment_list,
                   object_data, point_list, equipment_vo_list, relation_list,
                   idx, result, output_file, printed, raised>>

(* lines 85-87: detect_encoding reads the file and returns chardet's answer *)
DetectOk ==
    /\ pc = "detect"
    /\ csv_file.exists
    /\ file_encoding' = detected
    /\ printed' = Append(printed, "detected")
    /\ ci' = 1
    /\ equipment_list' = <<>>
    /\ pc' = "try"
    /\ UNCHANGED <<inputs, default_config, fieldnames, line, object_data,
                   point_list, equipment_vo_list, relation_list, idx, result,
                   output_file, raised>>

(* lines 88-90: the file cannot be read, guess gbk *)
DetectFail ==
    /\ pc = "detect"
    /\ ~csv_file.exists
    /\ file_encoding' = "gbk"
    /\ printed' = Append(printed, "detect_failed")
    /\ ci' = 1
    /\ equipment_list' = <<>>
    /\ pc' = "try"
    /\ UNCHANGED <<inputs, default_config, fieldnames, line, object_data,
                   point_list, equipment_vo_list, relation_list, idx, result,
                   output_file, raised>>

Candidate == encodings_to_try(file_encoding)[ci]

(* the handler of lines 106-108 without its equipment_list = [] *)
OnDecodeError_KeepsRows ==
    /\ equipment_list' = equipment_list
    /\ ci' = ci + 1
    /\ pc' = "try"
    /\ UNCHANGED printed

(* lines 106-108: except UnicodeDecodeError *)
OnDecodeError ==
    /\ equipment_list' = <<>>
    /\ ci' = ci + 1
    /\ pc' = "try"
    /\ UNCHANGED printed

(* lines 109-112: except Exception *)
OnOtherError ==
    /\ printed' = Append(printed, "candidate_error")
    /\ equipment_list' = <<>>
    /\ ci' = ci + 1
    /\ pc' = "try"

(* line 98 on a file that cannot be opened *)
OpenFail ==
    /\ pc = "try"
    /\ ci <= Len(encodings_to_try(file_encoding))
    /\ ~csv_file.exists
    /\ OnOtherError
    /\ UNCHANGED <<inputs, default_config, file_encoding, fieldnames, line,
                   object_data, point_list, equipment_vo_list, relation_list,
                   idx, result, output_file, raised>>

(* lines 98-100: open under the candidate, DictReader reads the header *)
OpenOk ==
    /\ pc = "try"
    /\ ci <= Len(encodings_to_try(file_encoding))
    /\ csv_file.exists
    /\ DecodeLine(Candidate, csv_file.header, TRUE) # DecodeErr
    /\ fieldnames' = DecodeLine(Candidate, csv_file.header, TRUE)
    /\ line' = 0
    /\ pc' = "read"
    /\ UNCHANGED <<inputs, default_config, file_encoding, ci, equipment_list,
                   object_data, point_list, equipment_vo_list, relation_list,
                   idx, result, output_file, printed, raised>>

(* the header does not decode under the candidate *)
OpenDecodeFail ==
    /\ pc = "try"
    /\ ci <= Len(encodings_to_try(file_encoding))
    /\ csv_file.exists
    /\ DecodeLine(Candidate, csv_file.header, TRUE) = DecodeErr
    /\ OnDecodeError
    /\ UNCHANGED <<inputs, default_config, file_encoding, fieldnames, line,
                   object_data, point_list, equipment_vo_list, relation_list,
                   idx, result, output_file, raised>>

(* line 103 *)
AppendRow(list, row) == Append(list, row)

(* lines 102-103 *)
Accepted(list, row) == IF HasKey(row) THEN AppendRow(list, row) ELSE list

(* lines 100-103: the next line decodes; keep it when it has an identifier *)
ReadRow ==
    /\ pc = "read"
    /\ line < Len(csv_file.rows)
    /\ DecodeLine(Candidate, csv_file.rows[line + 1], FALSE) # DecodeErr
    /\ equipment_list' =
          Accepted(equipment_list,
                   [names |-> fieldnames,
                    cells |-> DecodeLine(Candidate, csv_file.rows[line + 1], FALSE)])
    /\ line' = line + 1
    /\ UNCHANGED <<inputs, default_config, file_encoding, ci, fieldnames,
                   object_data, point_list, equipment_vo_list, relation_list,
                   idx, result, output_file, printed, raised, pc>>

(* the next line does not decode under the candidate *)
ReadDecodeFail ==
    /\ pc = "read"
    /\ line < Len(csv_file.rows)
    /\ DecodeLine(Candidate, csv_file.rows[line + 1], FALSE) = DecodeErr
    /\ OnDecodeError
    /\ UNCHANGED <<inputs, default_config, file_encoding, fieldnames, line,
                   object_data, point_list, equipment_vo_list, relation_list,
                   idx, result, output_file, raised>>

(* lines 104-105: the pass reached the end of the file; break *)
PassDone ==
    /\ pc = "read"
    /\ line = Len(csv_file.rows)
    /\ printed' = Append(printed, "read_ok")
    /\ pc' = "check"
    /\ UNCHANGED <<inputs, default_config, file_encoding, ci, fieldnames, line,
                   equipment_list, object_data, point_list, equipment_vo_list,
                   relation_list, idx, result, output_file, raised>>

(* line 96: the candidate list is used up *)
Exhausted ==
    /\ pc = "try"
    /\ ci > Len(encodings_to_try(file_encoding))
    /\ pc' = "check"
    /\ UNCHANGED <<inputs, default_config, file_encoding, ci, fieldnames, line,
                   equipment_list, object_data, point_list, equipment_vo_list,
                   relation_list, idx, result, output_file, printed, raised>>

(* lines 114-116 without the return: the empty document is written *)
Abort_WritesEmptyDocument ==
    /\ pc = "check"
    /\ equipment_list = <<>>
    /\ printed' = Append(printed, "no_valid_rows")
    /\ output_file' = <<[objectPushVoList |-> <<>>, pointPushVoList |-> <<>>,
                         equipmentPushVoList |-> <<>>, equipRlPushVoList |-> <<>>]>>
    /\ pc' = "aborted"
    /\ UNCHANGED <<inputs, default_config, file_encoding, ci, fieldnames, line,
                   equipment_list, object_data, point_list, equipment_vo_list,
                   relation_list, idx, result, raised>>

(* lines 114-116 *)
Abort ==
    /\ pc = "check"
    /\ equipment_list = <<>>
    /\ printed' = Append(printed, "no_valid_rows")
    /\ pc' = "aborted"
    /\ UNCHANGED <<inputs, default_config, file_encoding, ci, fieldnames, line,
                   equipment_list, object_data, point_list, equipment_vo_list,
                   relation_list, idx, result, output_file, raised>>

(* line 127 with "or" in place of "and" *)
CoordPair_EitherNonZero(lon, lat) == IF lon # 0 \/ lat # 0 THEN <<<<lon, lat>>>> ELSE <<>>

(* line 127: the pair is kept when both coordinates are non-zero *)
CoordPair(lon, lat) == IF lon # 0 /\ lat # 0 THEN <<<<lon, lat>>>> ELSE <<>>

(* lines 125-127: the coordinate pairs, in millionths, of the rows whose
   longitude and latitude are both non-zero *)
RECURSIVE valid_coords(_)
valid_coords(list) ==
    IF list = <<>> THEN <<>>
    ELSE CoordPair(safe_float(Get(Head(list), COL_LON), 0),
                   safe_float(Get(Head(list), COL_LAT), 0))
         \o valid_coords(Tail(list))

RECURSIVE SumAxis(_, _)
SumAxis(coords, axis) ==
    IF coords = <<>> THEN 0 ELSE Head(coords)[axis] + SumAxis(Tail(coords), axis)

(* f"{total / count:.6f}", in millionths: the quotient rounded to nearest *)
Fmt6(total, count) == (2 * total + count) \div (2 * count)

(* lines 129-133 with the formatting of lines 149-150 *)
AvgOf(coords, axis) ==
    IF coords # <<>> THEN Fmt6(SumAxis(coords, axis), Len(coords))
    ELSE IF axis = 1 THEN 116000000 ELSE 40000000

AvgCoord(list, axis) == AvgOf(valid_coords(list), axis)

(* line 122 *)
ObjectCode(cfg) == cfg["region_code"] \o <<95>> \o cfg["sys_flag"] \o <<95, 79, 66, 74, 95, 48, 48, 49>>

(* line 164 *)
PointCode(object_code, i) == object_code \o <<95, 80>> \o ZFill3(IntToText(i))

(* the exception the dict literal of lines 135-155 raises, "none" if none:
   the subscript of line 140 is evaluated before the calls of line 151 *)
BuildFault(cfg, first_equip) ==
    IF "manage_company" \notin DOMAIN cfg THEN "KeyError"
    ELSE IF ~parse_phone(Get(first_equip, COL_PHONE)).ok THEN "ValueError"
    ELSE "none"

(* lines 135-155; first_equip: line 121, object_code: line 122 *)
ObjectOf(cfg, first_equip, object_code, lon, lat, clock) ==
    [id |-> generate_id("OBJ", 1, clock),
     coamObjectCode |-> object_code,
     coamObjectName |-> cfg["object_name"],
     coamObjectType |-> cfg["object_type"],
     coamObjectMechanism |-> safe_str(Get(first_equip, COL_COMPANY), cfg["manage_company"]),
     coamObjectRegion |-> cfg["region_code"],
     coamObjectProject |-> cfg["project_id"],
     coamObjectStatus |-> "ENABLE",
     coamSysFlag |-> cfg["sys_flag"],
     coamSubjectType |-> cfg["subject_type"],
     coamSubjectCode |-> object_code,
     coamLongitude |-> lon,
     coamLatitude |-> lat,
     createBy |-> parse_phone(Get(first_equip, COL_PHONE)).val,
     createTime |-> parse_datetime(Get(first_equip, COL_TIME), clock),
     updateBy |-> parse_phone(Get(first_equip, COL_PHONE)).val,
     updateTime |-> parse_datetime(Get(first_equip, COL_TIME), clock)]

(* lines 121-155 *)
ObjectData(cfg, list, clock) ==
    ObjectOf(cfg, list[1], ObjectCode(cfg), AvgCoord(list, 1), AvgCoord(list, 2), clock)

(* lines 118-155: the row list is not empty, build the monitored object *)
BuildObject ==
    /\ pc = "check"
    /\ equipment_list # <<>>
    /\ BuildFault(default_config, equipment_list[1]) = "none"
    /\ printed' = Append(printed, "found_rows")
    /\ object_data' = ObjectData(default_config, equipment_list, now)
    /\ point_list' = <<>>
    /\ equipment_vo_list' = <<>>
    /\ relation_list' = <<>>
    /\ idx' = 1
    /\ pc' = "expand"
    /\ UNCHANGED <<inputs, default_config, file_encoding, ci, fieldnames, line,
                   equipment_list, result, output_file, raised>>

(* an exception leaves the dict literal of lines 135-155 *)
BuildObjectRaise ==
    /\ pc = "check"
    /\ equipment_list # <<>>
    /\ BuildFault(default_config, equipment_list[1]) # "none"
    /\ printed' = Append(printed, "found_rows")
    /\ raised' = BuildFault(default_config, equipment_list[1])
    /\ pc' = "raised"
    /\ UNCHANGED <<inputs, default_config, file_encoding, ci, fieldnames, line,
                   equipment_list, object_data, point_list, equipment_vo_list,
                   relation_list, idx, result, output_file>>

(* the exception lines 163-174 raise for a row, "none" if none *)
RowFault(cfg, row) ==
    IF ~parse_phone(Get(row, COL_PHONE)).ok THEN "ValueError"
    ELSE IF "manage_company" \notin DOMAIN cfg THEN "KeyError"
    ELSE "none"

(* lines 163-174: the locals of one turn of the loop *)
RowLocals(cfg, row, i, clock) ==
    [equip_code |-> safe_str(Get(row, COL_KEY), <<69, 81, 85, 73, 80, 95>> \o IntToText(i)),
     point_code |-> PointCode(ObjectCode(cfg), i),
     create_time |-> parse_datetime(Get(row, COL_TIME), clock),
     phone |-> parse_phone(Get(row, COL_PHONE)).val,
     longitude |-> safe_str(Get(row, COL_LON), <<48>>),
     latitude |-> safe_str(Get(row, COL_LAT), <<48>>),
     company |-> safe_str(Get(row, COL_COMPANY), cfg["manage_company"])]

(* lines 177-200; v: the locals of lines 163-174 *)
PointOf(cfg, v, i, clock) ==
    [id |-> generate_id("POINT", i, clock),
     coamPointCode |-> v.point_code,
     coamPointStatus |-> "ENABLE",
     coamPointObjectCode |-> ObjectCode(cfg),
     coamPointRegion |-> cfg["region_code"],
     coamLongitude |-> v.longitude,
     coamLatitude |-> v.latitude,
     coamPointType |-> cfg["subject_type"],
     createBy |-> v.phone,
     createTime |-> v.create_time,
     updateBy |-> v.phone,
     updateTime |-> v.create_time]

PointData(cfg, row, i, clock) == PointOf(cfg, RowLocals(cfg, row, i, clock), i, clock)

(* lines 204-237; v: the locals of lines 163-174 *)
EquipmentOf(cfg, v, i, clock) ==
    [id |-> generate_id("EQUIP", i, clock),
     coamEquipCode |-> v.equip_code,
     coamDynamicEquipCode |-> v.equip_code,
     coamEquipType |-> cfg["equip_type"],
     coamManageCompany |-> v.company,
     coamSysFlag |-> cfg["sys_flag"],
     coamProjectId |-> cfg["project_id"],
     coamMonitorObjectCode |-> ObjectCode(cfg),
     coamMonitorPointCode |-> v.point_code,
     coamPointBindDate |-> v.create_time,
     productCode |-> cfg["product_code"],
     imei |-> v.equip_code,
     createBy |-> v.phone,
     createTime |-> v.create_time,
     updateBy |-> v.phone,
     updateTime |-> v.create_time]

EquipmentData(cfg, row, i, clock) ==
    EquipmentOf(cfg, RowLocals(cfg, row, i, clock), i, clock)

(* lines 241-253 with the relation's equipment code taken from the raw
   cell instead of the normalised equip_code *)
RelationOf_RawKey(v, row, i, clock) ==
    [id |-> generate_id("REL", i, clock),
     coamEquipCode |-> Get(row, COL_KEY),
     coamPointCode |-> v.point_code,
     coamStatus |-> "1",
     coamAddtime |-> v.create_time,
     createBy |-> v.phone,
     createTime |-> v.create_time,
     updateBy |-> v.phone,
     updateTime |-> v.create_time]

(* lines 241-253; v: the locals of lines 163-174 *)
RelationOf(v, row, i, clock) ==
    [id |-> generate_id("REL", i, clock),
     coamEquipCode |-> v.equip_code,
     coamPointCode |-> v.point_code,
     coamStatus |-> "1",
     coamAddtime |-> v.create_time,
     createBy |-> v.phone,
     createTime |-> v.create_time,
     updateBy |-> v.phone,
     updateTime |-> v.create_time]

RelationData(cfg, row, i, clock) ==
    RelationOf(RowLocals(cfg, row, i, clock), row, i, clock)

(* the loop body binding a relation only for a row with a phone number *)
ExpandRow_RelationNeedsPhone ==
    /\ pc = "expand"
    /\ idx <= Len(equipment_list)
    /\ RowFault(default_config, equipment_list[idx]) = "none"
    /\ point_list' = Append(point_list,
                            PointData(default_config, equipment_list[idx], idx, now))
    /\ equipment_vo_list' = Append(equipment_vo_list,
                            EquipmentData(default_config, equipment_list[idx], idx, now))
    /\ relation_list' =
          IF parse_phone(Get(equipment_list[idx], COL_PHONE)).val = 0 THEN relation_list
          ELSE Append(relation_list,
                      RelationData(default_config, equipment_list[idx], idx, now))
    /\ idx' = idx + 1
    /\ UNCHANGED <<inputs, default_config, file_encoding, ci, fieldnames, line,
                   equipment_list, object_data, result, output_file, printed,
                   raised, pc>>

(* lines 162-254: one turn of the loop over the accepted rows *)
ExpandRow ==
    /\ pc = "expand"
    /\ idx <= Len(equipment_list)
    /\ RowFault(default_config, equipment_list[idx]) = "none"
    /\ point_list' = Append(point_list,
                            PointData(default_config, equipment_list[idx], idx, now))
    /\ equipment_vo_list' = Append(equipment_vo_list,
                            EquipmentData(default_config, equipment_list[idx], idx, now))
    /\ relation_list' = Append(relation_list,
                            RelationData(default_config, equipment_list[idx], idx, now))
    /\ idx' = idx + 1
    /\ UNCHANGED <<inputs, default_config, file_encoding, ci, fieldnames, line,
                   equipment_list, object_data, result, output_file, printed,
                   raised, pc>>

(* an exception leaves the loop body at lines 163-174 *)
ExpandRowRaise ==
    /\ pc = "expand"
    /\ idx <= Len(equipment_list)
    /\ RowFault(default_config, equipment_list[idx]) # "none"
    /\ raised' = RowFault(default_config, equipment_list[idx])
    /\ pc' = "raised"
    /\ UNCHANGED <<inputs, default_config, file_encoding, ci, fieldnames, line,
                   equipment_list, object_data, point_list, equipment_vo_list,
                   relation_list, idx, result, output_file, printed>>

(* lines 257-262 with one copy of the object per point *)
Assemble_ObjectPerRow(obj, points, equipments, relations) ==
    [objectPushVoList |-> [i \in 1..Len(points) |-> obj],
     pointPushVoList |-> points,
     equipmentPushVoList |-> equipments,
     equipRlPushVoList |-> relations]

(* lines 257-262 *)
Assemble(obj, points, equipments, relations) ==
    [objectPushVoList |-> <<obj>>,
     pointPushVoList |-> points,
     equipmentPushVoList |-> equipments,
     equipRlPushVoList |-> relations]

(* lines 257-283: assemble the document, write it, report, return it *)
WriteOutput ==
    /\ pc = "expand"
    /\ idx > Len(equipment_list)
    /\ LET doc == Assemble(object_data, point_list, equipment_vo_list, relation_list)
       IN /\ result' = <<doc>>
          /\ output_file' = <<doc>>
    /\ printed' = Append(printed, "converted")
    /\ pc' = "done"
    /\ UNCHANGED <<inputs, default_config, file_encoding, ci, fieldnames, line,
                   equipment_list, object_data, point_list, equipment_vo_list,
                   relation_list, idx, raised>>

Next ==
    \/ MergeConfig
    \/ DetectOk
    \/ DetectFail
    \/ OpenFail
    \/ OpenOk
    \/ OpenDecodeFail
    \/ ReadRow
    \/ ReadDecodeFail
    \/ PassDone
    \/ Exhausted
    \/ Abort
    \/ BuildObject
    \/ BuildObjectRaise
    \/ ExpandRow
    \/ ExpandRowRaise
    \/ WriteOutput

Spec == Init /\ [][Next]_vars

(* ---------------------------------------------------------------------- *)
(* Properties.                                                            *)
(* ---------------------------------------------------------------------- *)
PostLoop == pc \in {"check", "expand", "done", "aborted", "raised"}
Terminated == pc \in {"done", "aborted", "raised"}

(* the candidate list as the specification gives it *)
CandidateList ==
    <<IF csv_file.exists THEN detected ELSE "gbk",
      "utf-8", "gbk", "gb2312", "utf-8-sig", "latin1">>

(* the whole file decodes under enc *)
PassOk(enc) ==
    /\ csv_file.exists
    /\ DecodeLine(enc, csv_file.header, TRUE) # DecodeErr
    /\ \A k \in 1..Len(csv_file.rows) : DecodeLine(enc, csv_file.rows[k], FALSE) # DecodeErr

(* the first candidate, in list order, under which the whole file decodes;
   0 when there is none *)
FirstOk ==
    LET ok == {i \in 1..Len(CandidateList) : PassOk(CandidateList[i])}
    IN IF ok = {} THEN 0 ELSE CHOOSE i \in ok : \A j \in ok : i <= j

(* line k of the file as the reader sees it under enc *)
ViewRow(enc, k) ==
    [names |-> DecodeLine(enc, csv_file.header, TRUE),
     cells |-> DecodeLine(enc, csv_file.rows[k], FALSE)]

(* the equipment identifier of a row is missing, empty or white space *)
KeyBlank(row) ==
    LET v == Get(row, COL_KEY)
    IN v = None \/ \A i \in 1..Len(v) : IsSpace(v[i])

(* the numbers, in file order, of the lines among the first n that carry an
   equipment identifier under enc *)
RECURSIVE KeptLines(_, _)
KeptLines(enc, n) ==
    IF n = 0 THEN <<>>
    ELSE IF KeyBlank(ViewRow(enc, n)) THEN KeptLines(enc, n - 1)
    ELSE Append(KeptLines(enc, n - 1), n)

KeptRows(enc, n) ==
    LET kept == KeptLines(enc, n) IN [i \in 1..Len(kept) |-> ViewRow(enc, kept[i])]

(* line k of the source text, as a row *)
TextView(k) ==
    [names |-> HeaderLine(source.header),
     cells |-> TextLine(source.header, source.rows[k])]

RECURSIVE TrueKept(_)
TrueKept(n) ==
    IF n = 0 THEN <<>>
    ELSE IF KeyBlank(TextView(n)) THEN TrueKept(n - 1)
    ELSE Append(TrueKept(n - 1), TextView(n))

(* the rows of the source text that carry an equipment identifier *)
TrueRows == TrueKept(Len(source.rows))

Doc == result[1]

(* C1 (as claimed): with the managing company supplied, a run whose reader
   accepted at least one row always ends with the document, whatever the
   non-key fields hold; no field defect ends the run with an exception. *)
C1_FieldDefectsAbsorbed ==
    (Terminated /\ equipment_list # <<>> /\ "manage_company" \in DOMAIN default_config)
        => (pc = "done" /\ Len(result) = 1 /\ raised = "none")

(* C2 (as claimed): once the configuration is merged every one of the nine
   fields has an effective value, the caller's when supplied and the
   built-in default otherwise, and no read of a field raises KeyError. *)
C2_EveryFieldHasEffectiveValue ==
    /\ raised # "KeyError"
    /\ pc # "start" =>
         \A f \in ConfigFields :
            /\ f \in DOMAIN default_config
            /\ (config.given /\ f \in config.keys) => default_config[f] = config.vals[f]
            /\ (~(config.given /\ f \in config.keys) /\ f \in DOMAIN BuiltinDefaults)
                  => default_config[f] = BuiltinDefaults[f]

(* C3 (as claimed): the source's charset is in the candidate list, so after
   the reader loop the accepted rows are exactly the rows of the source text
   that carry an equipment identifier. *)
C3_TrueCharsetAlwaysRecovered ==
    (PostLoop /\ csv_file.exists
       /\ \E i \in 1..Len(CandidateList) : CandidateList[i] = source.charset)
        => equipment_list = TrueRows

(* C3 (amended): when the first candidate, in list order, under which the
   whole file decodes is the source's charset, the accepted rows are exactly
   the rows of the source text that carry an equipment identifier. *)
C3_FirstSuccessIsTrueCharset ==
    (PostLoop /\ csv_file.exists /\ FirstOk # 0
       /\ CandidateList[FirstOk] = source.charset)
        => equipment_list = TrueRows

(* C3 witness: the true charset won after an earlier candidate failed, and
   rows were accepted *)
C3_Witness ==
    /\ pc = "done"
    /\ ci >= 2
    /\ Candidate = source.charset
    /\ Candidate # CandidateList[1]
    /\ Len(equipment_list) >= 1
    /\ equipment_list = TrueRows

(* C4: a run whose accepted row list is empty after the reader loop ends
   aborted, with the diagnostic printed, no document returned and the output
   file never written; only a non-empty list goes on to build a document. *)
C4_EmptyListAborts ==
    /\ (PostLoop /\ equipment_list = <<>>) =>
          (pc \in {"check", "aborted"} /\ result = <<>> /\ output_file = <<>>)
    /\ pc = "aborted" =>
          /\ equipment_list = <<>>
          /\ result = <<>>
          /\ output_file = <<>>
          /\ printed[Len(printed)] = "no_valid_rows"

(* C4 witness: a readable file with data lines, all filtered out or garbled,
   ended in the abort *)
C4_Witness ==
    /\ pc = "aborted"
    /\ csv_file.exists
    /\ Len(csv_file.rows) >= 1
    /\ output_file = <<>>

(* C5: in a produced document the i-th point, equipment and relation carry
   the same point code, the i-th equipment and relation the same equipment
   code, and the i-th point and equipment the object's code. *)
C5_CodesAgreeAcrossCollections ==
    pc = "done" =>
       \A i \in 1..Len(Doc.pointPushVoList) :
          /\ i \in DOMAIN Doc.equipmentPushVoList
          /\ i \in DOMAIN Doc.equipRlPushVoList
          /\ Doc.pointPushVoList[i].coamPointCode
                = Doc.equipmentPushVoList[i].coamMonitorPointCode
          /\ Doc.pointPushVoList[i].coamPointCode
                = Doc.equipRlPushVoList[i].coamPointCode
          /\ Doc.equipmentPushVoList[i].coamEquipCode
                = Doc.equipRlPushVoList[i].coamEquipCode
          /\ Doc.pointPushVoList[i].coamPointObjectCode
                = Doc.objectPushVoList[1].coamObjectCode
          /\ Doc.equipmentPushVoList[i].coamMonitorObjectCode
                = Doc.objectPushVoList[1].coamObjectCode

(* C5 witness: a document with a row whose identifier needed trimming *)
C5_Witness ==
    /\ pc = "done"
    /\ \E i \in 1..Len(equipment_list) :
          Get(equipment_list[i], COL_KEY) # Doc.equipRlPushVoList[i].coamEquipCode

(* C6: in a produced document the point, equipment and relation lists have
   the same length, the number of rows the reader accepted. *)
C6_ListsMatchAcceptedRows ==
    pc = "done" =>
       /\ Len(Doc.pointPushVoList) = Len(equipment_list)
       /\ Len(Doc.equipmentPushVoList) = Len(equipment_list)
       /\ Len(Doc.equipRlPushVoList) = Len(equipment_list)
       /\ Len(equipment_list) = Len(KeptLines(Candidate, Len(csv_file.rows)))

(* C6 witness: a document from a file of which some lines were filtered out
   and one accepted row has no phone number *)
C6_Witness ==
    /\ pc = "done"
    /\ Len(Doc.pointPushVoList) < Len(csv_file.rows)
    /\ \E i \in 1..Len(Doc.pointPushVoList) : Doc.pointPushVoList[i].createBy = 0

(* C7: a line whose equipment identifier is missing, empty or white space
   contributes nothing: the accepted rows are the other lines, in file order,
   the i-th point, equipment and relation are numbered i and derived from the
   i-th such line, the object's fields come from the first such line and the
   coordinate average ranges over such lines only. *)
C7_BlankKeyRowsExcluded ==
    /\ pc = "read" => equipment_list = KeptRows(Candidate, line)
    /\ pc \in {"expand", "done"} =>
         LET n == Len(csv_file.rows)
             kept == KeptRows(Candidate, n)
         IN /\ equipment_list = kept
            /\ \A i \in 1..Len(equipment_list) : ~KeyBlank(equipment_list[i])
            /\ object_data.coamObjectMechanism
                  = safe_str(Get(kept[1], COL_COMPANY), default_config["manage_company"])
            /\ object_data.createBy = parse_phone(Get(kept[1], COL_PHONE)).val
            /\ object_data.coamLongitude = AvgCoord(kept, 1)
            /\ object_data.coamLatitude = AvgCoord(kept, 2)
            /\ Len(point_list) <= Len(kept)
            /\ \A i \in 1..Len(point_list) :
                  /\ equipment_vo_list[i].coamEquipCode = Strip(Get(kept[i], COL_KEY))
                  /\ relation_list[i].coamEquipCode = Strip(Get(kept[i], COL_KEY))
                  /\ point_list[i].coamLongitude = safe_str(Get(kept[i], COL_LON), <<48>>)
                  /\ point_list[i].coamPointCode
                        = object_data.coamObjectCode \o <<95, 80>> \o ZFill3(IntToText(i))
                  /\ point_list[i].id[3] = ZFill3(IntToText(i))

(* C7 witness: a document from a file whose first line has a white-space
   identifier and valid coordinates *)
C7_Witness ==
    /\ pc = "done"
    /\ Len(csv_file.rows) >= 2
    /\ LET first == ViewRow(Candidate, 1)
       IN /\ Get(first, COL_KEY) # None
          /\ Get(first, COL_KEY) # <<>>
          /\ KeyBlank(first)
          /\ safe_float(Get(first, COL_LON), 0) # 0
    /\ Len(Doc.pointPushVoList) < Len(csv_file.rows)

(* C8: a produced document has exactly one element in objectPushVoList,
   whatever the number of accepted rows. *)
C8_ExactlyOneObject ==
    pc = "done" =>
       /\ Len(Doc.objectPushVoList) = 1
       /\ Len(output_file[1].objectPushVoList) = 1
       /\ Len(equipment_list) >= 1

(* C8 witness: a document from a file all of whose lines were accepted *)
C8_Witness ==
    /\ pc = "done"
    /\ Len(equipment_list) = MaxRows
    /\ Len(Doc.objectPushVoList) = 1

(* the accepted rows whose longitude and latitude both normalise to a
   non-zero number *)
Qualifying ==
    {i \in 1..Len(equipment_list) :
        /\ safe_float(Get(equipment_list[i], COL_LON), 0) # 0
        /\ safe_float(Get(equipment_list[i], COL_LAT), 0) # 0}

RECURSIVE SumOver(_, _)
SumOver(S, col) ==
    IF S = {} THEN 0
    ELSE LET i == CHOOSE x \in S : TRUE
         IN safe_float(Get(equipment_list[i], col), 0) + SumOver(S \ {i}, col)

(* out, in millionths, is the quotient total / count to six decimals *)
IsMean6(out, total, count) ==
    /\ 2 * (out * count - total) <= count
    /\ 2 * (total - out * count) <= count

(* C9: the object's longitude and latitude are the means, per axis and to six
   decimals, over the accepted rows whose longitude and latitude are both
   non-zero; with no such row they are 116.0 and 40.0. *)
C9_CoordinateMean ==
    pc \in {"expand", "done"} =>
       IF Qualifying = {}
       THEN /\ object_data.coamLongitude = 116000000
            /\ object_data.coamLatitude = 40000000
       ELSE /\ IsMean6(object_data.coamLongitude, SumOver(Qualifying, COL_LON),
                       Cardinality(Qualifying))
            /\ IsMean6(object_data.coamLatitude, SumOver(Qualifying, COL_LAT),
                       Cardinality(Qualifying))

(* C9 witness: a document whose average leaves out an accepted row *)
C9_Witness ==
    /\ pc = "done"
    /\ Qualifying # {}
    /\ Cardinality(Qualifying) < Len(equipment_list)
    /\ Doc.objectPushVoList[1].coamLongitude # 116000000

(* C10: the candidates are tried in list order up to the first under which
   the whole file decodes; the accepted rows are those read under the
   candidate at hand, none is left from a failed candidate when the next one
   starts, and after the loop they are the rows of the first successful
   candidate, or none when every candidate failed. *)
C10_FirstSuccessWins ==
    /\ pc = "try" => equipment_list = <<>>
    /\ pc = "read" =>
          /\ equipment_list = KeptRows(Candidate, line)
          /\ \A j \in 1..(ci - 1) : ~PassOk(CandidateList[j])
    /\ PostLoop =>
          IF FirstOk = 0
          THEN ci = Len(CandidateList) + 1 /\ equipment_list = <<>>
          ELSE /\ ci = FirstOk
               /\ equipment_list = KeptRows(CandidateList[FirstOk], Len(csv_file.rows))

(* C10 witness: the loop ended on a later candidate with rows accepted,
   after an earlier candidate had accepted the first line and then failed *)
C10_Witness ==
    /\ PostLoop
    /\ ci >= 2
    /\ ci <= Len(CandidateList)
    /\ equipment_list # <<>>
    /\ \E j \in 1..(ci - 1) :
          /\ DecodeLine(CandidateList[j], csv_file.header, TRUE) # DecodeErr
          /\ DecodeLine(CandidateList[j], csv_file.rows[1], FALSE) # DecodeErr
          /\ ~KeyBlank(ViewRow(CandidateList[j], 1))
          /\ ~PassOk(CandidateList[j])

====
